---------------------------- MODULE Spec2Model ----------------------------
(***************************************************************************)
(* A model of the prompt-assembly core of SecureAgent:                     *)
(*   - the diff line mapper              (prompts.ts, assignLineNumbers),  *)
(*   - the context strategy selector     (prompts.ts, buildPatchPrompt),   *)
(*   - the token budget checker          (isConversationWithinLimit),      *)
(*   - the Python parser adapter         (context/language/python-parser), *)
(*   - the inline-fix prompt             (prompts/inline-prompt.ts).       *)
(*                                                                         *)
(* Text is a sequence of one-character strings, so that split, join,       *)
(* startsWith, the chunk-header pattern, number formatting and             *)
(* String.prototype.replace are computed the way the code computes them.   *)
(* Every operation of the program is a pure function; an action draws the  *)
(* operation's inputs, applies it, and records the call and its outcome.   *)
(***************************************************************************)
EXTENDS Integers, Sequences, FiniteSets, TLC

VARIABLES
    op,             \* the operation called last
    arg,            \* its arguments
    res,            \* its outcome: [kind |-> "return", ...] or [kind |-> "throw", ...]
    parserInvoked   \* whether that call reached a parser adapter

vars == <<op, arg, res, parserInvoked>>

---------------------------------------------------------------------------
(* Bounds of the model. *)

\* the longest diff, in lines
MaxDiffLines == 4

\* the longest patch of a changed file, in lines, beside the scenario's patch
MaxPatchLines == 2

\* the most nodes of a syntax tree
MaxNodes == 3

\* the last line of a source file
MaxLine == 3

---------------------------------------------------------------------------
(* JavaScript string primitives. *)

NL == "\n"

Digits == <<"0", "1", "2", "3", "4", "5", "6", "7", "8", "9">>

IsDigit(c) == \E d \in 1..10 : Digits[d] = c

DigitVal(c) == (CHOOSE d \in 1..10 : Digits[d] = c) - 1

\* `${n}` for a non-negative integer n: its decimal digits
RECURSIVE NumberToString(_)
NumberToString(n) ==
    IF n < 10 THEN <<Digits[n + 1]>>
    ELSE NumberToString(n \div 10) \o <<Digits[(n % 10) + 1]>>

\* parseInt(s) for a string of decimal digits
RECURSIVE parseInt(_)
parseInt(s) ==
    IF Len(s) = 0 THEN 0
    ELSE 10 * parseInt(SubSeq(s, 1, Len(s) - 1)) + DigitVal(s[Len(s)])

\* s.split("\n")
RECURSIVE split(_)
split(s) ==
    IF \A i \in 1..Len(s) : s[i] # NL THEN <<s>>
    ELSE LET i == CHOOSE i \in 1..Len(s) :
                      s[i] = NL /\ \A j \in 1..(i - 1) : s[j] # NL
         IN <<SubSeq(s, 1, i - 1)>> \o split(SubSeq(s, i + 1, Len(s)))

\* lines.join("\n")
RECURSIVE join(_)
join(lines) ==
    IF Len(lines) = 0 THEN <<>>
    ELSE IF Len(lines) = 1 THEN lines[1]
    ELSE lines[1] \o <<NL>> \o join(Tail(lines))

\* line.startsWith(prefix)
startsWith(line, prefix) ==
    /\ Len(line) >= Len(prefix)
    /\ SubSeq(line, 1, Len(prefix)) = prefix

\* whether s holds the literal lit at position i
LiteralAt(s, i, lit) ==
    /\ i + Len(lit) - 1 <= Len(s)
    /\ SubSeq(s, i, i + Len(lit) - 1) = lit

\* the length of the longest run of digits of s that starts at position i (\d+ is greedy)
RECURSIVE DigitRun(_, _)
DigitRun(s, i) ==
    IF i <= Len(s) /\ IsDigit(s[i]) THEN 1 + DigitRun(s, i + 1) ELSE 0

---------------------------------------------------------------------------
(* The diff line mapper. *)

\* /@@ -\d+,\d+ \+(\d+),\d+ @@/ tried at position i of the line. Each \d+ is
\* followed by a literal that is no digit, so the greedy run is the only match.
HeaderPatternAt(line, i) ==
    LET p2 == i + 4
        d1 == DigitRun(line, p2)
        p3 == p2 + d1
        p4 == p3 + 1
        d2 == DigitRun(line, p4)
        p5 == p4 + d2
        p6 == p5 + 2
        d3 == DigitRun(line, p6)
        p7 == p6 + d3
        p8 == p7 + 1
        d4 == DigitRun(line, p8)
        p9 == p8 + d4
    IN IF /\ LiteralAt(line, i, <<"@", "@", " ", "-">>)
          /\ d1 >= 1
          /\ LiteralAt(line, p3, <<",">>)
          /\ d2 >= 1
          /\ LiteralAt(line, p5, <<" ", "+">>)
          /\ d3 >= 1
          /\ LiteralAt(line, p7, <<",">>)
          /\ d4 >= 1
          /\ LiteralAt(line, p9, <<" ", "@", "@">>)
       THEN [matched |-> TRUE, group1 |-> SubSeq(line, p6, p6 + d3 - 1)]
       ELSE [matched |-> FALSE, group1 |-> <<>>]

\* line.match(pattern): the leftmost match anywhere in the line, or null
match(line) ==
    IF \E i \in 1..Len(line) : HeaderPatternAt(line, i).matched
    THEN HeaderPatternAt(line,
            CHOOSE i \in 1..Len(line) :
                /\ HeaderPatternAt(line, i).matched
                /\ \A j \in 1..(i - 1) : ~HeaderPatternAt(line, j).matched)
    ELSE [matched |-> FALSE, group1 |-> <<>>]

\* line.startsWith("@@")
isChunkHeader(line) == startsWith(line, <<"@", "@">>)

\* line.startsWith("-")
isDeletion(line) == startsWith(line, <<"-">>)

\* a retained line without its diff marker
numberedLineStripped(newLine, line) ==
    NumberToString(newLine) \o <<":", " ">> \o (IF Len(line) > 0 THEN Tail(line) ELSE line)

\* `${newLine}: ${line}`
numberedLine(newLine, line) ==
    NumberToString(newLine) \o <<":", " ">> \o line

\* a header that leaves the counter where it was
headerStartKept(m, newLine) == newLine

\* newLine = parseInt(match[1])
headerStart(m, newLine) == parseInt(m.group1)

\* the for loop of assignLineNumbers from line k on
RECURSIVE assignLoop(_, _, _, _)
assignLoop(lines, k, newLine, lineNumbers) ==
    IF k > Len(lines) THEN [kind |-> "return", value |-> join(lineNumbers)]
    ELSE LET line == lines[k] IN
         IF isChunkHeader(line)
         THEN LET m == match(line) IN
              IF ~m.matched
              THEN \* match is null: match[1] throws
                   [kind |-> "throw", error |-> "TypeError"]
              ELSE assignLoop(lines, k + 1, headerStart(m, newLine),
                              Append(lineNumbers, line))
         ELSE IF ~isDeletion(line)
         THEN assignLoop(lines, k + 1, newLine + 1,
                         Append(lineNumbers, numberedLine(newLine, line)))
         ELSE assignLoop(lines, k + 1, newLine, lineNumbers)

assignLineNumbers(diff) == assignLoop(split(diff), 1, 0, <<>>)

---------------------------------------------------------------------------
(* The Python parser adapter. *)

\* largestEnclosingContext = null
NoNode == 0

\* ast.parse(file): the tree of a file the parser accepts, an exception with the
\* parser's message for a file it rejects
parse(file) ==
    IF file.valid THEN [kind |-> "return", tree |-> file.tree]
    ELSE [kind |-> "throw", message |-> file.message]

\* the comparison that lets a later node of the same size replace the one held
isLargerOrEqual(size, largestSize) == size >= largestSize

\* size > largestSize
isLarger(size, largestSize) == size > largestSize

\* start.line <= lineStart && lineEnd <= end.line
containsRange(node, lineStart, lineEnd) ==
    node.loc.start <= lineStart /\ lineEnd <= node.loc.end

processNode(node, lineStart, lineEnd, largestSize, largestEnclosingContext) ==
    LET size == node.loc.end - node.loc.start IN
    IF containsRange(node, lineStart, lineEnd) /\ isLarger(size, largestSize)
    THEN [largestSize |-> size, largestEnclosingContext |-> node.id]
    ELSE [largestSize |-> largestSize, largestEnclosingContext |-> largestEnclosingContext]

\* traverseNode(node): the node itself, then node.body.forEach(traverseNode);
\* acc holds the closure's largestSize and largestEnclosingContext
RECURSIVE traverseNode(_, _, _, _, _)
RECURSIVE forEachBody(_, _, _, _, _, _)
traverseNode(tree, n, lineStart, lineEnd, acc) ==
    forEachBody(tree, tree[n].body, 1, lineStart, lineEnd,
                processNode(tree[n], lineStart, lineEnd,
                            acc.largestSize, acc.largestEnclosingContext))

forEachBody(tree, body, k, lineStart, lineEnd, acc) ==
    IF k > Len(body) THEN acc
    ELSE forEachBody(tree, body, k + 1, lineStart, lineEnd,
                     traverseNode(tree, body[k], lineStart, lineEnd, acc))

\* isNull: the call returned null; otherwise it returned { enclosingContext }
findEnclosingContext(file, lineStart, lineEnd) ==
    LET parsed == parse(file) IN
    IF parsed.kind = "throw"
    THEN [kind |-> "return", isNull |-> TRUE, enclosingContext |-> NoNode]
    ELSE [kind |-> "return", isNull |-> FALSE,
          enclosingContext |->
              traverseNode(parsed.tree, 1, lineStart, lineEnd,
                           [largestSize |-> 0, largestEnclosingContext |-> NoNode]
                          ).largestEnclosingContext]

\* a dry run that reports every file as valid
dryRunAlwaysValid(file) == [kind |-> "return", valid |-> TRUE, error |-> ""]

dryRun(file) ==
    LET parsed == parse(file) IN
    IF parsed.kind = "throw"
    THEN [kind |-> "return", valid |-> FALSE, error |-> parsed.message]
    ELSE [kind |-> "return", valid |-> TRUE, error |-> ""]

---------------------------------------------------------------------------
(* The context strategy selector. *)

\* String.raw`${patch}`: the template has no literal text, the patch is substituted
\* as it is
StringRaw(patch) == <<>> \o patch \o <<>>

\* `## ${file.filename}\n\n${patchWithLines}`
buildSuggestionPrompt(file) ==
    LET patchWithLines == assignLineNumbers(StringRaw(file.patch)) IN
    IF patchWithLines.kind = "throw" THEN patchWithLines
    ELSE [kind |-> "return",
          value |-> <<"#", "#", " ">> \o file.filename \o <<NL, NL>>
                        \o patchWithLines.value]

\* the raw-patch strategy: the file name and the annotated patch, no parser
rawPatchStrategy(file) ==
    [outcome |-> buildSuggestionPrompt(file), parser |-> FALSE]

\* what the parser adapter is given as the file's previous contents
PreviousText(file) ==
    IF file.old_contents.tag = "present" THEN file.old_contents.text
    ELSE [valid |-> FALSE, tree |-> <<>>, message |-> "no contents"]

\* the smarter-context strategy: the previous contents go to the parser adapter; a
\* file it rejects, or a change with no enclosing node, falls back to the raw patch
smarterContextPatchStrategy(file) ==
    LET check == dryRun(PreviousText(file))
        context == findEnclosingContext(PreviousText(file), 1, 1)
        raw == buildSuggestionPrompt(file)
    IN IF ~check.valid \/ context.isNull \/ context.enclosingContext = NoNode
          \/ raw.kind = "throw"
       THEN [outcome |-> raw, parser |-> TRUE]
       ELSE [outcome |-> [kind |-> "return", value |-> raw.value,
                          context |-> context.enclosingContext],
             parser |-> TRUE]

\* file.old_contents === null: undefined takes the other branch
isStrictlyNull(old_contents) == old_contents.tag = "null"

\* file.old_contents == null: true of null and of undefined
isNullish(old_contents) == old_contents.tag \in {"null", "undefined"}

buildPatchPrompt(file) ==
    IF isNullish(file.old_contents) THEN rawPatchStrategy(file)
    ELSE smarterContextPatchStrategy(file)

---------------------------------------------------------------------------
(* The token budget checker. *)

ModelsToTokenLimits ==
    [m \in {"mixtral-8x7b-32768", "gemma-7b-it", "llama3-70b-8192", "llama3-8b-8192"} |->
        CASE m = "mixtral-8x7b-32768" -> 32768
          [] m = "gemma-7b-it" -> 32768
          [] m = "llama3-70b-8192" -> 8192
          [] m = "llama3-8b-8192" -> 8192]

\* encodeChat(convo, "gpt-3.5-turbo").length: the tokenizer is a library; a message
\* carries the number of tokens the tokenizer makes of it, its chat framing included
RECURSIVE encodeChatLength(_)
encodeChatLength(convo) ==
    IF Len(convo) = 0 THEN 0
    ELSE convo[1].tokens + encodeChatLength(Tail(convo))

\* ModelsToTokenLimits[model]: undefined for a model the table does not hold
limitOf(model) ==
    IF model \in DOMAIN ModelsToTokenLimits
    THEN [defined |-> TRUE, value |-> ModelsToTokenLimits[model]]
    ELSE [defined |-> FALSE, value |-> 0]

\* a comparison that lets a conversation of exactly the limit through
lessThanOrEqual(convoTokens, limit) ==
    IF limit.defined THEN convoTokens <= limit.value ELSE FALSE

\* convoTokens < limit: undefined converts to NaN, and every comparison with NaN is false
lessThan(convoTokens, limit) ==
    IF limit.defined THEN convoTokens < limit.value ELSE FALSE

isConversationWithinLimit(convo, model) ==
    [kind |-> "return", value |-> lessThan(encodeChatLength(convo), limitOf(model))]

---------------------------------------------------------------------------
(* The inline-fix prompt. *)

INLINE_FIX_PROMPT == <<"You are CodeFixer, an advanced language model ...">>

INLINE_USER_MESSAGE_TEMPLATE ==
    <<"{", "S", "U", "G", "G", "E", "S", "T", "I", "O", "N", "}", "\n", "\n", "{", "F", "I", "L", "E", "}">>

assignFullLineNumbers(contents) ==
    LET lines == split(contents) IN
    join([i \in 1..Len(lines) |-> NumberToString(i) \o <<":", " ">> \o lines[i]])

\* the replacement text of String.prototype.replace for a string pattern (no capture
\* groups): $$ is "$", $& the matched text, $` the text before the match, $' the
\* text after it; any other "$" stands for itself
RECURSIVE GetSubstitution(_, _, _, _)
GetSubstitution(matched, str, position, replacement) ==
    IF Len(replacement) = 0 THEN <<>>
    ELSE IF replacement[1] = "$" /\ Len(replacement) >= 2
                /\ replacement[2] \in {"$", "&", "`", "'"}
    THEN (CASE replacement[2] = "$" -> <<"$">>
            [] replacement[2] = "&" -> matched
            [] replacement[2] = "`" -> SubSeq(str, 1, position - 1)
            [] replacement[2] = "'" -> SubSeq(str, position + Len(matched), Len(str)))
         \o GetSubstitution(matched, str, position, Tail(Tail(replacement)))
    ELSE <<replacement[1]>>
         \o GetSubstitution(matched, str, position, Tail(replacement))

\* str.replace(pattern, replacement) for a string pattern: the first occurrence only
replace(str, pattern, replacement) ==
    IF ~\E i \in 1..Len(str) : LiteralAt(str, i, pattern) THEN str
    ELSE LET position == CHOOSE i \in 1..Len(str) :
                            /\ LiteralAt(str, i, pattern)
                            /\ \A j \in 1..(i - 1) : ~LiteralAt(str, j, pattern)
         IN SubSeq(str, 1, position - 1)
            \o GetSubstitution(pattern, str, position, replacement)
            \o SubSeq(str, position + Len(pattern), Len(str))

\* suggestion stands for suggestion.toString()
getInlineFixPrompt(fileContents, suggestion) ==
    LET userMessage ==
            replace(replace(INLINE_USER_MESSAGE_TEMPLATE,
                            <<"{", "S", "U", "G", "G", "E", "S", "T", "I", "O", "N", "}">>, suggestion),
                    <<"{", "F", "I", "L", "E", "}">>, assignFullLineNumbers(fileContents))
    IN [kind |-> "return",
        value |-> <<[role |-> "system", content |-> INLINE_FIX_PROMPT],
                    [role |-> "user", content |-> userMessage]>>]

---------------------------------------------------------------------------
(* Inputs. *)

HeaderA == <<"@", "@", " ", "-", "1", ",", "2", " ", "+", "1", ",", "2", " ", "@", "@">>
HeaderB == <<"@", "@", " ", "-", "7", ",", "3", " ", "+", "9", ",", "4", " ", "@", "@",
             " ", "d", "e", "f", " ", "f", "(", ")", ":">>
\* a header without its counts
HeaderBad == <<"@", "@", " ", "-", "1", " ", "+", "1", " ", "@", "@">>
\* a line that holds the header pattern, but not at its start
HeaderOdd == <<"@", "@", "x", "@", "@", " ", "-", "1", ",", "2", " ", "+", "5", ",", "2", " ", "@", "@">>
LineDel == <<"-", "f", "o", "o">>
LineAdd == <<"+", "b", "a", "r">>
LineCtx == <<" ", "b", "a", "z">>
LineEmpty == <<>>

DiffLines == {HeaderA, HeaderB, HeaderBad, HeaderOdd, LineDel, LineAdd, LineCtx, LineEmpty}

\* the diffs: up to MaxDiffLines lines
DiffTexts ==
    {join(ls) : ls \in UNION {[1..n -> DiffLines] : n \in 1..MaxDiffLines}}

\* the diff "@@ -1,2 +1,2 @@\n-foo\n+bar\n baz"
ScenarioDiff ==
    <<"@", "@", " ", "-", "1", ",", "2", " ", "+", "1", ",", "2", " ", "@", "@", "\n", "-", "f", "o", "o", "\n", "+", "b", "a", "r", "\n", " ", "b", "a", "z">>

\* the patches of the changed files
Patches ==
    {ScenarioDiff}
    \cup {join(ls) : ls \in UNION {[1..n -> DiffLines] : n \in 1..MaxPatchLines}}

\* the line ranges [start, end] of a file of MaxLine lines
Ranges ==
    {r \in [start : 1..MaxLine, end : 1..MaxLine] : r.start <= r.end}

RECURSIVE SortedSeq(_)
SortedSeq(S) ==
    IF S = {} THEN <<>>
    ELSE LET m == CHOOSE x \in S : \A y \in S : x <= y
         IN <<m>> \o SortedSeq(S \ {m})

\* the tree of n nodes with parents p and source ranges l; node 1 is the root and the
\* children of a node are in its body in the order of their numbers
MkTree(n, p, l) ==
    [i \in 1..n |->
        [id |-> i, loc |-> l[i], body |-> SortedSeq({j \in 2..n : p[j] = i})]]

\* the parents of the nodes 2..n of a tree of n nodes
Shapes(n) == {p \in [2..n -> 1..n] : \A i \in 2..n : p[i] < i}

\* every node lies within the source range of its parent
WellNested(tree) ==
    \A i \in DOMAIN tree : \A k \in 1..Len(tree[i].body) :
        LET c == tree[tree[i].body[k]] IN
        tree[i].loc.start <= c.loc.start /\ c.loc.end <= tree[i].loc.end

\* the source files: a file is what the parser makes of it, a syntax tree ...
AcceptedFile(tree) == [valid |-> TRUE, tree |-> tree, message |-> ""]

\* ... or a syntax error
RejectedFiles ==
    {[valid |-> FALSE, tree |-> <<>>, message |-> m] :
        m \in {"invalid syntax", "unexpected indent"}}

FileA == <<"a", ".", "p", "y">>
FileB == <<"s", "r", "c", "/", "b", ".", "p", "y">>

\* the previous contents of a changed file: null, undefined, or a text
OldContents ==
    {[tag |-> "null", text |-> <<>>], [tag |-> "undefined", text |-> <<>>]}
    \cup {[tag |-> "present", text |-> f] : f \in RejectedFiles}
    \cup {[tag |-> "present", text |-> AcceptedFile(MkTree(1, <<>>, <<r>>))] :
            r \in Ranges}

PRFiles == [filename : {FileA, FileB}, patch : Patches, old_contents : OldContents]

\* conversations: a system message and a user message, by their token counts
Conversations ==
    {<<[role |-> "system", tokens |-> st], [role |-> "user", tokens |-> ut]>> :
        st \in {192, 1000},
        ut \in {0, 7999, 8000, 8001, 8808, 32575, 32576, 32577}}

ModelIds == DOMAIN ModelsToTokenLimits \cup {"gpt-4"}

\* suggestion texts: plain, holding the placeholder, holding "$" patterns
SuggestionTexts ==
    {<<"f", "i", "x">>,
     <<"s", "e", "e", " ", "{", "F", "I", "L", "E", "}">>,
     <<"a", "$", "&">>,
     <<"$", "$">>}

\* file contents: one line, two lines, empty, holding "$" patterns
FileContents ==
    {<<"x">>,
     <<"a", "\n", "b">>,
     <<>>,
     <<"$", "&">>,
     <<"p", "$", "'", "\n", "{", "F", "I", "L", "E", "}">>}

---------------------------------------------------------------------------
(* The operations. *)

Init ==
    /\ op = "none"
    /\ arg = [none |-> TRUE]
    /\ res = [kind |-> "none"]
    /\ parserInvoked = FALSE

\* no call is in progress: the operations share no state, every call starts here
Idle == op = "none"

\* a call of an operation: what was called, with what, and what came of it
Called(name, arguments, outcome, parser) ==
    /\ op' = name
    /\ arg' = arguments
    /\ res' = outcome
    /\ parserInvoked' = parser

CallAssignLineNumbers ==
    /\ Idle
    /\ \E diff \in DiffTexts :
          Called("assignLineNumbers", [diff |-> diff], assignLineNumbers(diff), FALSE)

FindEnclosingContextOf(file) ==
    \E r \in Ranges :
        Called("findEnclosingContext",
               [file |-> file, lineStart |-> r.start, lineEnd |-> r.end],
               findEnclosingContext(file, r.start, r.end), TRUE)

CallFindEnclosingContext ==
    /\ Idle
    /\ \/ \E n \in 1..MaxNodes : \E p \in Shapes(n), l \in [1..n -> Ranges] :
             /\ WellNested(MkTree(n, p, l))
             /\ FindEnclosingContextOf(AcceptedFile(MkTree(n, p, l)))
       \/ \E file \in RejectedFiles : FindEnclosingContextOf(file)

DryRunOf(file) == Called("dryRun", [file |-> file], dryRun(file), TRUE)

CallDryRun ==
    /\ Idle
    /\ \/ \E n \in 1..MaxNodes : \E p \in Shapes(n), l \in [1..n -> Ranges] :
             /\ WellNested(MkTree(n, p, l))
             /\ DryRunOf(AcceptedFile(MkTree(n, p, l)))
       \/ \E file \in RejectedFiles : DryRunOf(file)

CallBuildPatchPrompt ==
    /\ Idle
    /\ \E file \in PRFiles :
          Called("buildPatchPrompt", [file |-> file],
                 buildPatchPrompt(file).outcome, buildPatchPrompt(file).parser)

CallIsConversationWithinLimit ==
    /\ Idle
    /\ \E convo \in Conversations, model \in ModelIds :
          Called("isConversationWithinLimit", [convo |-> convo, model |-> model],
                 isConversationWithinLimit(convo, model), FALSE)

CallGetInlineFixPrompt ==
    /\ Idle
    /\ \E fileContents \in FileContents, suggestion \in SuggestionTexts :
          Called("getInlineFixPrompt",
                 [fileContents |-> fileContents, suggestion |-> suggestion],
                 getInlineFixPrompt(fileContents, suggestion), FALSE)

\* the caller takes the outcome; nothing of the call is left behind
Return ==
    /\ ~Idle
    /\ op' = "none"
    /\ arg' = [none |-> TRUE]
    /\ res' = [kind |-> "none"]
    /\ parserInvoked' = FALSE

Next ==
    \/ CallAssignLineNumbers
    \/ CallFindEnclosingContext
    \/ CallDryRun
    \/ CallBuildPatchPrompt
    \/ CallIsConversationWithinLimit
    \/ CallGetInlineFixPrompt
    \/ Return

Spec == Init /\ [][Next]_vars

---------------------------------------------------------------------------
(* Properties of the diff line mapper. *)

ScenarioAnnotated ==
    <<"@", "@", " ", "-", "1", ",", "2", " ", "+", "1", ",", "2", " ", "@", "@", "\n", "1", ":", " ", "+", "b", "a", "r", "\n", "2", ":", " ", " ", "b", "a", "z">>

ScenarioAnnotatedWithoutMarkers ==
    <<"@", "@", " ", "-", "1", ",", "2", " ", "+", "1", ",", "2", " ", "@", "@", "\n", "1", ":", " ", "b", "a", "r", "\n", "2", ":", " ", "b", "a", "z">>

\* C1 as the code has it: assignLineNumbers applied to the diff
\* "@@ -1,2 +1,2 @@\n-foo\n+bar\n baz" returns "@@ -1,2 +1,2 @@\n1: +bar\n2:  baz":
\* the header verbatim, the deletion dropped, and each retained line as its new-file
\* number, ": ", and the whole diff line, its leading '+' or ' ' marker included.
C1_ScenarioKeepsMarkers ==
    (op = "assignLineNumbers" /\ arg.diff = ScenarioDiff)
        => res = [kind |-> "return", value |-> ScenarioAnnotated]

\* C1 as stated: the same call returns "@@ -1,2 +1,2 @@\n1: bar\n2: baz",
\* the retained lines without their diff markers.
C1_ScenarioAsStated ==
    (op = "assignLineNumbers" /\ arg.diff = ScenarioDiff)
        => res = [kind |-> "return", value |-> ScenarioAnnotatedWithoutMarkers]

C1_Witness ==
    /\ op = "assignLineNumbers"
    /\ arg.diff = ScenarioDiff
    /\ res.kind = "return"

\* a chunk header of the form "@@ -a,b +c,d @@..."
WellFormedHeader(line) == HeaderPatternAt(line, 1).matched

\* a unified diff with at least one chunk header, all of its headers well formed
ValidDiff(lines) ==
    /\ \E k \in 1..Len(lines) : isChunkHeader(lines[k])
    /\ \A k \in 1..Len(lines) : isChunkHeader(lines[k]) => WellFormedHeader(lines[k])

NotDeletion(line) == ~startsWith(line, <<"-">>)

EndsWith(s, suffix) ==
    /\ Len(s) >= Len(suffix)
    /\ SubSeq(s, Len(s) - Len(suffix) + 1, Len(s)) = suffix

\* the post-image start c of the header "@@ -a,b +c,d @@"
PostImageStart(header) == parseInt(HeaderPatternAt(header, 1).group1)

\* C2: for a valid unified diff with at least one chunk header, the output holds the
\* lines that do not start with '-' once each and in their order, holds no line that
\* starts with '-', leaves every header as it is, and numbers the retained lines of a
\* chunk c, c+1, c+2, ... from the post-image start c of the chunk's header.
C2_RetainedLinesNumbered ==
    (op = "assignLineNumbers" /\ ValidDiff(split(arg.diff))) =>
        /\ res.kind = "return"
        /\ LET kept == SelectSeq(split(arg.diff), NotDeletion)
               out == split(res.value)
           IN /\ Len(out) = Len(kept)
              /\ \A k \in 1..Len(kept) :
                    /\ NotDeletion(out[k])
                    /\ EndsWith(out[k], kept[k])
                    /\ isChunkHeader(kept[k]) => out[k] = kept[k]
                    /\ (/\ ~isChunkHeader(kept[k])
                        /\ \E h \in 1..(k - 1) : isChunkHeader(kept[h]))
                       => LET h == CHOOSE h \in 1..(k - 1) :
                                      /\ isChunkHeader(kept[h])
                                      /\ \A j \in (h + 1)..(k - 1) : ~isChunkHeader(kept[j])
                          IN out[k] = NumberToString(PostImageStart(kept[h]) + (k - h - 1))
                                        \o <<":", " ">> \o kept[k]

\* a valid diff whose second chunk starts at 9 and whose second retained line is
\* therefore numbered 10
C2_Witness ==
    /\ op = "assignLineNumbers"
    /\ ValidDiff(split(arg.diff))
    /\ Len(split(arg.diff)) = MaxDiffLines
    /\ \E k \in 1..Len(split(arg.diff)) : isDeletion(split(arg.diff)[k])
    /\ res.kind = "return"
    /\ \E k \in 1..Len(split(res.value)) :
           split(res.value)[k] = <<"1", "0", ":", " ", "+", "b", "a", "r">>

\* a diff the mapper cannot use: a line that starts with "@@" and is no
\* "@@ -<n>,<n> +<n>,<n> @@" header, or a retained line before the first header
MalformedDiff(lines) ==
    \/ \E k \in 1..Len(lines) : isChunkHeader(lines[k]) /\ ~WellFormedHeader(lines[k])
    \/ \E k \in 1..Len(lines) :
           /\ ~isChunkHeader(lines[k])
           /\ NotDeletion(lines[k])
           /\ Len(lines[k]) > 0
           /\ \A j \in 1..(k - 1) : ~isChunkHeader(lines[j])

\* C7: assignLineNumbers surfaces an error, and returns no annotated text, for a
\* malformed diff (a bad "@@" line, or retained lines before the first chunk header).
C7_MalformedDiffSurfaced ==
    (op = "assignLineNumbers" /\ MalformedDiff(split(arg.diff))) => res.kind = "throw"

---------------------------------------------------------------------------
(* Properties of the parser adapter. *)

\* the nodes of the tree whose source range contains [a, b]
Containing(tree, a, b) ==
    {n \in DOMAIN tree : tree[n].loc.start <= a /\ b <= tree[n].loc.end}

Size(tree, n) == tree[n].loc.end - tree[n].loc.start

\* the nodes in depth-first order: a parent before its children, the children in
\* body order
RECURSIVE Preorder(_, _)
RECURSIVE PreorderOfBody(_, _, _)
Preorder(tree, n) == <<n>> \o PreorderOfBody(tree, tree[n].body, 1)

PreorderOfBody(tree, body, k) ==
    IF k > Len(body) THEN <<>>
    ELSE Preorder(tree, body[k]) \o PreorderOfBody(tree, body, k + 1)

\* when node n is visited
Visit(tree, n) ==
    CHOOSE i \in 1..Len(Preorder(tree, 1)) : Preorder(tree, 1)[i] = n

\* the nodes of S of the greatest size
Largest(tree, S) ==
    {n \in S : \A m \in S : Size(tree, m) <= Size(tree, n)}

\* C4: for a file the parser accepts, findEnclosingContext returns no node when no
\* node contains [lineStart, lineEnd], and otherwise a node that contains it, also
\* when the only containing nodes start and end on the same line.
C4_ContainingNodeReturned ==
    (op = "findEnclosingContext" /\ arg.file.valid) =>
        LET C == Containing(arg.file.tree, arg.lineStart, arg.lineEnd) IN
        /\ res.kind = "return"
        /\ IF C = {} THEN res.enclosingContext = NoNode
           ELSE res.enclosingContext \in C

\* C8: a parse failure never reaches the caller as an exception: for a file the parser
\* rejects findEnclosingContext returns null and dryRun returns valid = false with the
\* parser's message; for a file it accepts dryRun returns valid = true and "".
C8_ParseFailureContained ==
    /\ (op = "findEnclosingContext" /\ ~arg.file.valid) =>
            (res.kind = "return" /\ res.isNull)
    /\ (op = "findEnclosingContext" /\ arg.file.valid) =>
            (res.kind = "return" /\ ~res.isNull)
    /\ op = "dryRun" =>
            /\ res.kind = "return"
            /\ res.valid = arg.file.valid
            /\ res.error = (IF arg.file.valid THEN "" ELSE arg.file.message)

C8_Witness ==
    /\ op = "dryRun"
    /\ ~arg.file.valid
    /\ ~res.valid
    /\ res.error = "unexpected indent"

---------------------------------------------------------------------------
(* Properties of the context strategy selector. *)

\* the raw-patch rendering "## " + filename + "\n\n" + assignLineNumbers(patch)
RawPatchRendering(file) ==
    LET annotated == assignLineNumbers(file.patch) IN
    IF annotated.kind = "throw" THEN annotated
    ELSE [kind |-> "return",
          value |-> <<"#", "#", " ">> \o file.filename \o <<NL>> \o <<NL>>
                        \o annotated.value]

\* C3: for a file whose old_contents is null or undefined, buildPatchPrompt gives the
\* raw-patch rendering "## " + filename + "\n\n" + assignLineNumbers(patch) and no
\* parser adapter is invoked.
C3_AbsentContentsRawPatch ==
    (op = "buildPatchPrompt" /\ arg.file.old_contents.tag # "present") =>
        /\ res = RawPatchRendering(arg.file)
        /\ ~parserInvoked

ScenarioPrompt ==
    <<"#", "#", " ", "a", ".", "p", "y", "\n", "\n", "@", "@", " ", "-", "1", ",", "2", " ", "+", "1", ",", "2", " ", "@", "@", "\n", "1", ":", " ", "+", "b", "a", "r", "\n", "2", ":", " ", " ", "b", "a", "z">>

\* the scenario file { "a.py", the scenario diff, old_contents undefined }
C3_Witness ==
    /\ op = "buildPatchPrompt"
    /\ arg.file.old_contents.tag = "undefined"
    /\ arg.file.filename = FileA
    /\ arg.file.patch = ScenarioDiff
    /\ res.kind = "return"
    /\ res.value = ScenarioPrompt
    /\ ~parserInvoked

---------------------------------------------------------------------------
(* Properties of the token budget checker. *)

\* the estimated token count of the system message and the user message
EstimatedTokens(convo) == convo[1].tokens + convo[2].tokens

\* C5: for a model of the limit table, isConversationWithinLimit returns true exactly
\* when the estimated token count of the conversation is strictly less than the
\* model's limit (9000 tokens against "llama3-8b-8192", limit 8192: false).
C5_WithinLimitIffBelow ==
    (op = "isConversationWithinLimit" /\ arg.model \in DOMAIN ModelsToTokenLimits) =>
        /\ res.kind = "return"
        /\ res.value = (EstimatedTokens(arg.convo) < ModelsToTokenLimits[arg.model])
        /\ (arg.model = "llama3-8b-8192" /\ EstimatedTokens(arg.convo) >= 8192)
                => res.value = FALSE

C5_Witness ==
    /\ op = "isConversationWithinLimit"
    /\ arg.model = "llama3-8b-8192"
    /\ EstimatedTokens(arg.convo) = 9000
    /\ res.value = FALSE

\* C6: a model identifier the limit table does not hold is rejected with an error:
\* the call does not return a boolean, neither true nor the false of "too large".
C6_UnknownModelRejected ==
    (op = "isConversationWithinLimit" /\ arg.model \notin DOMAIN ModelsToTokenLimits)
        => res.kind = "throw"

---------------------------------------------------------------------------
(* Properties of the inline-fix prompt. *)

\* the lines of the contents, the i-th prefixed by "i: "
NumberedContents(contents) ==
    LET lines == split(contents) IN
    join([i \in 1..Len(lines) |-> NumberToString(i) \o <<":", " ">> \o lines[i]])

\* C10: for every file contents and suggestion text, getInlineFixPrompt returns the
\* system message and then the user message, whose content is the suggestion text, a
\* blank line, and the file's lines, the i-th prefixed by "i: ".
C10_InlineFixUserMessage ==
    op = "getInlineFixPrompt" =>
        /\ res.kind = "return"
        /\ Len(res.value) = 2
        /\ res.value[1] = [role |-> "system", content |-> INLINE_FIX_PROMPT]
        /\ res.value[2].role = "user"
        /\ res.value[2].content =
               arg.suggestion \o <<NL, NL>> \o NumberedContents(arg.fileContents)

=============================================================================
